---- MODULE Spec2Model ----
(***************************************************************************)
(* Model of the Unity Coefficient pipeline of love_is_the_key:             *)
(*   protocol.py  v1_keyword_calculate, get_unity_report,                  *)
(*                _generate_context_aware_reframing                        *)
(*   context.py   ContextDetector, ConsciousnessContextualizer             *)
(*   models.py    UnityReport                                              *)
(*                                                                         *)
(* Representation.                                                         *)
(*  - A Python str is a sequence of one-character strings.                 *)
(*  - A float coefficient that went through round(x, 4) is the integer     *)
(*    number of ten-thousandths (0.75 is 7500); the coefficient before     *)
(*    rounding is the exact fraction unity_count / total_markers, and its  *)
(*    comparisons with 0.75 and 0.5 are done on the fraction.              *)
(*  - A message built by an f-string is the sequence of its parts; the     *)
(*    fixed parts are the literal strings of the source.                   *)
(*  - A dict is a function; Optional values use None.                      *)
(***************************************************************************)
EXTENDS Integers, Sequences, FiniteSets, TLC

VARIABLES pc, text, user_context, include_context,
          separation_hits, unity_hits, base_report, context_data, report,
          lexicons, init_kwargs, calls

vars == <<pc, text, user_context, include_context,
          separation_hits, unity_hits, base_report, context_data, report,
          lexicons, init_kwargs, calls>>

\* ---------------------------------------------------------------- bounds
\* Longest input text, in vocabulary pieces.
MaxPieces == 3

\* Largest small repetition count of the repeated-word texts of SpecEngine.
MaxRepeat == 8

\* How far outside [0.0, 1.0], in ten-thousandths, the coefficients handed
\* to the UnityReport constructor of SpecReport go.
MaxExcess == 50

\* Number of calls of get_unity_report that run concurrently in
\* SpecConcurrent.
MaxCalls == 3

\* ------------------------------------------------------- Python builtins
None == "<None>"

Range(s) == {s[i] : i \in DOMAIN s}

UPPERCASE == <<"A","B","C","D","E","F","G","H","I","J","K","L","M",
               "N","O","P","Q","R","S","T","U","V","W","X","Y","Z">>
LOWERCASE == <<"a","b","c","d","e","f","g","h","i","j","k","l","m",
               "n","o","p","q","r","s","t","u","v","w","x","y","z">>

\* str.lower() on one character (ASCII letters; every other character of
\* the model's alphabet is unchanged by lower()).
LowerChar(c) ==
  IF \E i \in DOMAIN UPPERCASE : UPPERCASE[i] = c
    THEN LOWERCASE[CHOOSE i \in DOMAIN UPPERCASE : UPPERCASE[i] = c]
    ELSE c

\* A call that forgets the lower-casing.
LowerMissing(s) == s

\* str.lower()
RECURSIVE Lower(_)
Lower(s) == IF s = <<>> THEN <<>> ELSE <<LowerChar(Head(s))>> \o Lower(Tail(s))

\* s[i : i + len(sub)] == sub, for a position i at which sub still fits.
MatchAt(s, sub, i) ==
  /\ s[i] = sub[1]
  /\ \A k \in 2..Len(sub) : s[i + k - 1] = sub[k]

\* A count that resumes one character behind the start of a match, so that
\* overlapping occurrences are all counted.
RECURSIVE CountFromOverlapping(_, _, _)
CountFromOverlapping(s, sub, i) ==
  IF i + Len(sub) - 1 > Len(s) THEN 0
  ELSE IF MatchAt(s, sub, i) THEN 1 + CountFromOverlapping(s, sub, i + 1)
  ELSE CountFromOverlapping(s, sub, i + 1)

\* str.count(sub): scan from the left, and after a match resume behind it.
RECURSIVE CountFrom(_, _, _)
CountFrom(s, sub, i) ==
  IF i + Len(sub) - 1 > Len(s) THEN 0
  ELSE IF MatchAt(s, sub, i) THEN 1 + CountFrom(s, sub, i + Len(sub))
  ELSE CountFrom(s, sub, i + 1)

\* sub in s
Contains(s, sub) == \E i \in 1..(Len(s) - Len(sub) + 1) : MatchAt(s, sub, i)

\* str.count(sub); a sub that does not occur at all is counted without a scan.
StrCount(s, sub) == IF Contains(s, sub) THEN CountFrom(s, sub, 1) ELSE 0

\* sum(d.values())
RECURSIVE SumValues(_)
SumValues(d) ==
  IF DOMAIN d = {} THEN 0
  ELSE LET k == CHOOSE k \in DOMAIN d : TRUE
       IN d[k] + SumValues([j \in DOMAIN d \ {k} |-> d[j]])

\* A rounding that truncates instead of rounding to nearest.
Round4Truncate(num, den) == (num * 10000) \div den

\* round(num / den, 4) in ten-thousandths: nearest, an exact half to even.
\* (Python rounds the double num / den; the two agree for every den < 160 and
\* for the counts of EngineCounts.)
Round4(num, den) ==
  LET x == num * 10000
      q == x \div den
      r == x % den
  IN IF 2 * r < den THEN q
     ELSE IF 2 * r > den THEN q + 1
     ELSE IF q % 2 = 0 THEN q ELSE q + 1

\* ------------------------------------------------------------ the lexicon
SEPARATION_MARKERS == <<
  <<"f","e","a","r">>, <<"l","a","c","k">>, <<"i","m","p","o","s","s","i","b","l","e">>,
  <<"u","s"," ","v","e","r","s","u","s"," ","t","h","e","m">>,
  <<"j","u","d","g","e","m","e","n","t">>, <<"c","r","i","s","i","s">>,
  <<"s","c","a","r","c","i","t","y">>, <<"d","i","v","i","s","i","o","n">>,
  <<"c","o","n","f","l","i","c","t">>, <<"e","n","e","m","y">>, <<"z","e","r","o","-","s","u","m">>,
  <<"m","y"," ","w","a","y">>, <<"c","o","m","p","e","t","e">>, <<"d","o","m","i","n","a","t","e">>,
  <<"c","o","n","t","r","o","l">>, <<"t","h","r","e","a","t">>, <<"d","a","n","g","e","r">>,
  <<"a","t","t","a","c","k">>, <<"d","e","f","e","n","d">>, <<"p","r","o","t","e","c","t">>,
  <<"l","i","m","i","t","e","d">>, <<"f","i","n","i","t","e">>,
  <<"n","o","t"," ","e","n","o","u","g","h">>, <<"m","i","n","e">>, <<"y","o","u","r","s">>,
  <<"s","e","p","a","r","a","t","e">>, <<"i","s","o","l","a","t","e","d">>, <<"a","l","o","n","e">>,
  <<"a","b","a","n","d","o","n","e","d">>, <<"r","e","j","e","c","t","e","d">>,
  <<"f","a","i","l","u","r","e">>, <<"l","o","s","s">>, <<"d","e","f","e","a","t">>,
  <<"v","i","c","t","i","m">>, <<"p","o","w","e","r","l","e","s","s">>, <<"h","a","t","e">>,
  <<"a","n","g","e","r">>, <<"r","e","s","e","n","t","m","e","n","t">>,
  <<"r","e","v","e","n","g","e">>, <<"p","u","n","i","s","h","m","e","n","t">>,
  <<"w","r","o","n","g">>, <<"b","a","d">>, <<"e","v","i","l">>, <<"s","i","n">>,
  <<"g","u","i","l","t">>, <<"s","h","a","m","e">>, <<"b","l","a","m","e">>,
  <<"f","a","u","l","t">>, <<"m","i","s","t","a","k","e">>, <<"e","r","r","o","r">>,
  <<"w","e","a","k">>, <<"i","n","f","e","r","i","o","r">>, <<"l","e","s","s"," ","t","h","a","n">>,
  <<"u","n","w","o","r","t","h","y">>, <<"i","n","a","d","e","q","u","a","t","e">>,
  <<"i","m","p","o","s","s","i","b","l","e">>, <<"c","a","n","'","t">>, <<"w","o","n","'","t">>,
  <<"n","e","v","e","r">>, <<"h","o","p","e","l","e","s","s">>,
  <<"d","e","s","p","e","r","a","t","e">>, <<"a","n","x","i","o","u","s">>,
  <<"w","o","r","r","i","e","d">>, <<"s","t","r","e","s","s","e","d">>,
  <<"o","v","e","r","w","h","e","l","m","e","d">>, <<"c","h","a","o","s">>,
  <<"d","i","s","o","r","d","e","r">>, <<"d","e","s","t","r","u","c","t","i","o","n">>,
  <<"c","o","l","l","a","p","s","e">>, <<"e","n","d">>, <<"d","e","a","t","h">>,
  <<"d","y","i","n","g">>, <<"t","e","r","m","i","n","a","l">>, <<"f","a","t","a","l">>,
  <<"d","o","o","m","e","d">>, <<"e","x","c","l","u","s","i","v","e">>, <<"e","l","i","t","e">>,
  <<"s","u","p","e","r","i","o","r">>, <<"b","e","t","t","e","r"," ","t","h","a","n">>,
  <<"p","r","i","v","i","l","e","g","e">>, <<"h","i","e","r","a","r","c","h","y">>,
  <<"r","a","n","k">>, <<"s","t","a","t","u","s">>, <<"c","l","a","s","s">>,
  <<"c","a","s","t","e">>, <<"b","o","r","d","e","r">>, <<"b","o","u","n","d","a","r","y">>,
  <<"w","a","l","l">>, <<"b","a","r","r","i","e","r">>, <<"f","e","n","c","e">>,
  <<"r","e","s","t","r","i","c","t","i","o","n">>, <<"l","i","m","i","t","a","t","i","o","n">>,
  <<"c","o","n","s","t","r","a","i","n","t">>, <<"p","r","o","h","i","b","i","t","i","o","n">>,
  <<"b","a","n">>, <<"c","o","m","p","e","t","i","t","i","o","n">>, <<"r","i","v","a","l","r","y">>,
  <<"o","p","p","o","n","e","n","t">>, <<"a","d","v","e","r","s","a","r","y">>, <<"f","o","e">>
>>

UNITY_MARKERS == <<
  <<"l","o","v","e">>, <<"u","n","i","t","y">>, <<"c","o","-","c","r","e","a","t","e">>,
  <<"a","b","u","n","d","a","n","c","e">>, <<"p","o","s","s","i","b","i","l","i","t","y">>,
  <<"s","o","l","u","t","i","o","n">>, <<"h","a","r","m","o","n","y">>, <<"p","e","a","c","e">>,
  <<"t","o","g","e","t","h","e","r">>, <<"c","o","l","l","a","b","o","r","a","t","i","o","n">>,
  <<"s","h","a","r","e","d"," ","s","o","u","r","c","e">>, <<"p","o","t","e","n","t","i","a","l">>,
  <<"o","n","e","n","e","s","s">>, <<"w","h","o","l","e","n","e","s","s">>,
  <<"i","n","t","e","g","r","a","t","i","o","n">>, <<"c","o","n","n","e","c","t","i","o","n">>,
  <<"r","e","l","a","t","i","o","n","s","h","i","p">>, <<"b","o","n","d">>, <<"l","i","n","k">>,
  <<"b","r","i","d","g","e">>, <<"i","n","f","i","n","i","t","e">>,
  <<"u","n","l","i","m","i","t","e","d">>, <<"b","o","u","n","d","l","e","s","s">>,
  <<"e","n","d","l","e","s","s">>, <<"e","t","e","r","n","a","l">>,
  <<"c","o","l","l","e","c","t","i","v","e">>, <<"c","o","m","m","u","n","i","t","y">>,
  <<"a","l","l"," ","b","e","i","n","g","s">>, <<"e","v","e","r","y","o","n","e">>,
  <<"h","u","m","a","n","i","t","y">>, <<"t","o","g","e","t","h","e","r">>,
  <<"u","n","i","t","e","d">>, <<"j","o","i","n","e","d">>, <<"m","e","r","g","e","d">>,
  <<"c","o","m","b","i","n","e","d">>, <<"s","u","c","c","e","s","s">>,
  <<"v","i","c","t","o","r","y">>, <<"t","r","i","u","m","p","h">>,
  <<"a","c","h","i","e","v","e","m","e","n","t">>,
  <<"a","c","c","o","m","p","l","i","s","h","m","e","n","t">>,
  <<"e","m","p","o","w","e","r","m","e","n","t">>, <<"s","t","r","e","n","g","t","h">>,
  <<"c","a","p","a","b","i","l","i","t","y">>, <<"c","a","p","a","c","i","t","y">>,
  <<"a","b","i","l","i","t","y">>, <<"c","o","m","p","a","s","s","i","o","n">>,
  <<"k","i","n","d","n","e","s","s">>, <<"c","a","r","e">>, <<"s","u","p","p","o","r","t">>,
  <<"h","e","l","p">>, <<"f","o","r","g","i","v","e","n","e","s","s">>,
  <<"a","c","c","e","p","t","a","n","c","e">>,
  <<"u","n","d","e","r","s","t","a","n","d","i","n","g">>, <<"e","m","p","a","t","h","y">>,
  <<"s","y","m","p","a","t","h","y">>, <<"r","i","g","h","t">>, <<"g","o","o","d">>,
  <<"v","i","r","t","u","e">>, <<"m","e","r","i","t">>, <<"w","o","r","t","h">>,
  <<"h","o","n","o","r">>, <<"r","e","s","p","e","c","t">>, <<"d","i","g","n","i","t","y">>,
  <<"v","a","l","u","e">>, <<"a","p","p","r","e","c","i","a","t","i","o","n">>,
  <<"s","t","r","o","n","g">>, <<"c","a","p","a","b","l","e">>, <<"w","o","r","t","h","y">>,
  <<"d","e","s","e","r","v","i","n","g">>, <<"a","d","e","q","u","a","t","e">>,
  <<"p","o","s","s","i","b","l","e">>, <<"c","a","n">>, <<"w","i","l","l">>,
  <<"a","l","w","a","y","s">>, <<"h","o","p","e","f","u","l">>, <<"c","a","l","m">>,
  <<"p","e","a","c","e","f","u","l">>, <<"s","e","r","e","n","e">>,
  <<"t","r","a","n","q","u","i","l">>, <<"r","e","l","a","x","e","d">>, <<"o","r","d","e","r">>,
  <<"h","a","r","m","o","n","y">>, <<"b","a","l","a","n","c","e">>,
  <<"e","q","u","i","l","i","b","r","i","u","m">>, <<"s","t","a","b","i","l","i","t","y">>,
  <<"l","i","f","e">>, <<"l","i","v","i","n","g">>, <<"v","i","t","a","l">>,
  <<"v","i","b","r","a","n","t">>, <<"t","h","r","i","v","i","n","g">>,
  <<"i","n","c","l","u","s","i","v","e">>, <<"o","p","e","n">>,
  <<"w","e","l","c","o","m","i","n","g">>, <<"a","c","c","e","p","t","i","n","g">>,
  <<"e","m","b","r","a","c","i","n","g">>, <<"e","q","u","a","l","i","t","y">>,
  <<"f","a","i","r","n","e","s","s">>, <<"j","u","s","t","i","c","e">>, <<"e","q","u","i","t","y">>,
  <<"b","a","l","a","n","c","e">>, <<"o","p","e","n","i","n","g">>, <<"g","a","t","e","w","a","y">>,
  <<"p","o","r","t","a","l">>, <<"p","a","s","s","a","g","e">>, <<"a","c","c","e","s","s">>,
  <<"f","r","e","e","d","o","m">>, <<"l","i","b","e","r","t","y">>,
  <<"a","u","t","o","n","o","m","y">>, <<"i","n","d","e","p","e","n","d","e","n","c","e">>,
  <<"s","o","v","e","r","e","i","g","n","t","y">>, <<"c","o","o","p","e","r","a","t","i","o","n">>,
  <<"p","a","r","t","n","e","r","s","h","i","p">>, <<"a","l","l","i","a","n","c","e">>,
  <<"s","y","n","e","r","g","y">>, <<"s","y","m","b","i","o","s","i","s">>, <<"t","r","u","s","t">>,
  <<"f","a","i","t","h">>, <<"b","e","l","i","e","f">>, <<"c","o","n","f","i","d","e","n","c","e">>,
  <<"a","s","s","u","r","a","n","c","e">>, <<"j","o","y">>, <<"h","a","p","p","i","n","e","s","s">>,
  <<"d","e","l","i","g","h","t">>, <<"p","l","e","a","s","u","r","e">>, <<"b","l","i","s","s">>,
  <<"g","r","a","t","i","t","u","d","e">>, <<"t","h","a","n","k","f","u","l","n","e","s","s">>,
  <<"a","p","p","r","e","c","i","a","t","i","o","n">>,
  <<"a","c","k","n","o","w","l","e","d","g","m","e","n","t">>,
  <<"r","e","c","o","g","n","i","t","i","o","n">>, <<"g","r","o","w","t","h">>,
  <<"d","e","v","e","l","o","p","m","e","n","t">>, <<"e","v","o","l","u","t","i","o","n">>,
  <<"p","r","o","g","r","e","s","s">>, <<"a","d","v","a","n","c","e","m","e","n","t">>,
  <<"c","r","e","a","t","i","o","n">>, <<"g","e","n","e","r","a","t","i","o","n">>,
  <<"m","a","n","i","f","e","s","t","a","t","i","o","n">>, <<"e","m","e","r","g","e","n","c","e">>,
  <<"b","i","r","t","h">>, <<"l","i","g","h","t">>,
  <<"i","l","l","u","m","i","n","a","t","i","o","n">>, <<"c","l","a","r","i","t","y">>,
  <<"i","n","s","i","g","h","t">>, <<"w","i","s","d","o","m">>, <<"t","r","u","t","h">>,
  <<"a","u","t","h","e","n","t","i","c","i","t","y">>,
  <<"g","e","n","u","i","n","e","n","e","s","s">>, <<"s","i","n","c","e","r","i","t","y">>,
  <<"h","o","n","e","s","t","y">>, <<"b","e","a","u","t","y">>, <<"g","r","a","c","e">>,
  <<"e","l","e","g","a","n","c","e">>, <<"r","e","f","i","n","e","m","e","n","t">>,
  <<"e","x","c","e","l","l","e","n","c","e">>
>>

FICTION_INDICATORS == <<
  <<"c","h","a","p","t","e","r">>, <<"p","r","o","t","a","g","o","n","i","s","t">>,
  <<"c","h","a","r","a","c","t","e","r">>, <<"p","l","o","t">>, <<"s","t","o","r","y">>,
  <<"n","o","v","e","l">>, <<"n","a","r","r","a","t","i","v","e">>, <<"s","c","e","n","e">>,
  <<"d","i","a","l","o","g","u","e">>, <<"n","a","r","r","a","t","o","r">>,
  <<"f","i","c","t","i","o","n">>
>>

HORROR_INDICATORS == <<
  <<"h","o","r","r","o","r">>, <<"t","e","r","r","o","r">>, <<"f","e","a","r">>,
  <<"s","c","r","e","a","m">>, <<"b","l","o","o","d">>, <<"d","e","a","t","h">>,
  <<"m","o","n","s","t","e","r">>, <<"n","i","g","h","t","m","a","r","e">>,
  <<"h","a","u","n","t","e","d">>, <<"g","h","o","s","t">>, <<"z","o","m","b","i","e">>,
  <<"v","a","m","p","i","r","e">>, <<"d","e","m","o","n">>
>>

COMEDY_INDICATORS == <<
  <<"c","o","m","e","d","y">>, <<"h","u","m","o","r">>, <<"j","o","k","e">>,
  <<"f","u","n","n","y">>, <<"s","a","t","i","r","e">>, <<"p","a","r","o","d","y">>,
  <<"i","r","o","n","y">>, <<"s","a","r","c","a","s","m">>, <<"w","i","t">>,
  <<"a","m","u","s","i","n","g">>, <<"h","i","l","a","r","i","o","u","s">>, <<"l","a","u","g","h">>
>>

TECHNICAL_INDICATORS == <<
  <<"f","u","n","c","t","i","o","n">>, <<"c","l","a","s","s">>, <<"m","e","t","h","o","d">>,
  <<"a","l","g","o","r","i","t","h","m">>,
  <<"i","m","p","l","e","m","e","n","t","a","t","i","o","n">>,
  <<"d","o","c","u","m","e","n","t","a","t","i","o","n">>, <<"a","p","i">>, <<"c","o","d","e">>,
  <<"s","y","n","t","a","x">>, <<"c","o","m","p","i","l","e">>, <<"d","e","b","u","g">>
>>

ACADEMIC_INDICATORS == <<
  <<"a","b","s","t","r","a","c","t">>, <<"m","e","t","h","o","d","o","l","o","g","y">>,
  <<"h","y","p","o","t","h","e","s","i","s">>, <<"r","e","s","e","a","r","c","h">>,
  <<"s","t","u","d","y">>, <<"a","n","a","l","y","s","i","s">>,
  <<"c","o","n","c","l","u","s","i","o","n">>, <<"b","i","b","l","i","o","g","r","a","p","h","y">>,
  <<"c","i","t","a","t","i","o","n">>, <<"p","e","e","r","-","r","e","v","i","e","w","e","d">>
>>

ARTISTIC_INDICATORS == <<
  <<"a","r","t","i","s","t","i","c">>, <<"c","r","e","a","t","i","v","e">>,
  <<"e","x","p","r","e","s","s","i","o","n">>, <<"a","r","t">>, <<"p","o","e","t","r","y">>,
  <<"p","r","o","s","e">>, <<"m","e","t","a","p","h","o","r">>,
  <<"s","y","m","b","o","l","i","s","m">>, <<"i","m","a","g","e","r","y">>,
  <<"a","e","s","t","h","e","t","i","c">>
>>
\* The module-level marker lists of protocol.py and the class-level indicator
\* lists of ContextDetector: the state every call shares.
Lexicons ==
  [SEPARATION_MARKERS   |-> SEPARATION_MARKERS,
   UNITY_MARKERS        |-> UNITY_MARKERS,
   FICTION_INDICATORS   |-> FICTION_INDICATORS,
   HORROR_INDICATORS    |-> HORROR_INDICATORS,
   COMEDY_INDICATORS    |-> COMEDY_INDICATORS,
   TECHNICAL_INDICATORS |-> TECHNICAL_INDICATORS,
   ACADEMIC_INDICATORS  |-> ACADEMIC_INDICATORS,
   ARTISTIC_INDICATORS  |-> ARTISTIC_INDICATORS]

\* ------------------------------------------------------------- models.py
UnityReportFields ==
  {"coefficient", "analysis_method", "separation_hits", "unity_hits",
   "conscious_reframing"}

ValidationError == [error |-> "ValidationError"]

\* A constructor that clamps the coefficient into [0.0, 1.0].
UnityReportClamped(kwargs) ==
  [f \in (DOMAIN kwargs) \cap UnityReportFields |->
     IF f # "coefficient" THEN kwargs[f]
     ELSE IF kwargs.coefficient < 0 THEN 0
     ELSE IF kwargs.coefficient > 10000 THEN 10000
     ELSE kwargs.coefficient]

\* UnityReport(**kwargs): the coefficient is validated (ge=0.0, le=1.0);
\* the model has no extra-field configuration, so pydantic's default
\* applies and a keyword that is not a declared field is dropped.
UnityReport(kwargs) ==
  IF kwargs.coefficient < 0 \/ kwargs.coefficient > 10000
    THEN ValidationError
    ELSE [f \in (DOMAIN kwargs) \cap UnityReportFields |-> kwargs[f]]

\* The declared fields, in the order of the class body.
UnityReportFieldOrder ==
  <<"coefficient", "analysis_method", "separation_hits", "unity_hits",
    "conscious_reframing">>

DigitChars == <<"0", "1", "2", "3", "4", "5", "6", "7", "8", "9">>

\* The JSON number of a float that is a whole number of ten-thousandths:
\* the shortest decimal text, with at least one digit after the point
\* (0.5 is "0.5", 1.0 is "1.0", 0.3333 is "0.3333").
FloatRepr(coefficient) ==
  LET whole    == coefficient \div 10000
      fraction == coefficient % 10000
      digits   == <<fraction \div 1000, (fraction \div 100) % 10,
                    (fraction \div 10) % 10, fraction % 10>>
      used     == {k \in 1..4 : digits[k] # 0}
      last     == IF used = {} THEN 1
                  ELSE CHOOSE k \in used : \A m \in used : m <= k
  IN <<DigitChars[whole + 1], ".">>
       \o [k \in 1..last |-> DigitChars[digits[k] + 1]]

\* The float a JSON number of that form is parsed to, in ten-thousandths.
ParseFloat(number) ==
  LET DigitValue(c) == CHOOSE d \in 0..9 : DigitChars[d + 1] = c
      Place(k)      == CASE k = 3 -> 1000 [] k = 4 -> 100 [] k = 5 -> 10 [] k = 6 -> 1
      RECURSIVE Fraction(_)
      Fraction(k)   == IF k > Len(number) THEN 0
                       ELSE DigitValue(number[k]) * Place(k) + Fraction(k + 1)
  IN DigitValue(number[1]) * 10000 + Fraction(3)

\* report.model_dump_json(): the JSON object of the declared fields the
\* report holds, as the list of its <<name, value>> members; the coefficient
\* is written as a JSON number, a str and a dict as they are.
ModelDumpJson(r) ==
  LET names == SelectSeq(UnityReportFieldOrder, LAMBDA f : f \in DOMAIN r)
  IN [k \in DOMAIN names |->
        <<names[k],
          IF names[k] = "coefficient" THEN FloatRepr(r.coefficient) ELSE r[names[k]]>>]

\* UnityReport.model_validate_json(json): the members become the keyword
\* arguments of the constructor.
ModelValidateJson(json) ==
  LET Member(name) == CHOOSE k \in DOMAIN json : json[k][1] = name
  IN UnityReport([name \in {json[k][1] : k \in DOMAIN json} |->
                    IF name = "coefficient" THEN ParseFloat(json[Member(name)][2])
                    ELSE json[Member(name)][2]])

\* ------------------------------------------------- v1_keyword_calculate
\* for marker in MARKERS: count = text_lower.count(marker);
\*                        if count > 0: hits[marker] = count
CountHits(text_lower, markers) ==
  LET found == {markers[i] : i \in {j \in DOMAIN markers :
                                      StrCount(text_lower, markers[j]) > 0}}
  IN [marker \in found |-> StrCount(text_lower, marker)]

HIGH_UNITY_MSG ==
  "High Unity Alignment. The intent is rooted in love and abundance."
BALANCED_MSG ==
  "Balanced Alignment. The potential for conscious co-creation is strong, requiring only slight reframing."
SEPARATION_MSG ==
  "The content leans towards separation logic. Re-evaluate the core premise from the perspective of our shared source and inherent abundance."

\* A coefficient computed as a percentage.
CoefficientPercent(unity_count, total_markers) ==
  IF total_markers = 0 THEN <<1, 2>> ELSE <<100 * unity_count, total_markers>>

\* A coefficient without the neutral baseline.
CoefficientNoBaseline(unity_count, total_markers) ==
  IF total_markers = 0 THEN <<0, 1>> ELSE <<unity_count, total_markers>>

\* The coefficient before rounding, as the fraction <<numerator, denominator>>.
Coefficient(unity_count, total_markers) ==
  IF total_markers = 0 THEN <<1, 2>> ELSE <<unity_count, total_markers>>

\* if coefficient >= 0.75 ... elif coefficient >= 0.5 ... else
Reframing(coefficient) ==
  IF 4 * coefficient[1] >= 3 * coefficient[2] THEN <<HIGH_UNITY_MSG>>
  ELSE IF 2 * coefficient[1] >= coefficient[2] THEN <<BALANCED_MSG>>
  ELSE <<SEPARATION_MSG>>

\* Lines 123-148: the counts, the coefficient, the message, the report.
V1Report(sep_hits, uni_hits) ==
  LET separation_count == SumValues(sep_hits)
      unity_count      == SumValues(uni_hits)
      total_markers    == separation_count + unity_count
      coefficient      == Coefficient(unity_count, total_markers)
  IN UnityReport([coefficient         |-> Round4(coefficient[1], coefficient[2]),
                  analysis_method     |-> "V1: Keyword Lexicon Density",
                  separation_hits     |-> sep_hits,
                  unity_hits          |-> uni_hits,
                  conscious_reframing |-> Reframing(coefficient)])

\* ------------------------------------------------------------ context.py
\* The values of the ContentType enumeration.
ContentType ==
  {"fiction", "horror", "comedy", "satire", "technical", "business",
   "personal", "academic", "spiritual", "artistic", "journalistic", "unknown"}

\* The ContentContext dataclass, after __post_init__ (a metadata of None has
\* become the empty dict).  confidence is the fraction <<numerator, denominator>>.
ContentContext(content_type, genre, intent, creative_license, confidence, metadata) ==
  [content_type     |-> content_type,
   genre            |-> genre,
   intent           |-> intent,
   audience         |-> None,
   creative_license |-> creative_license,
   confidence       |-> confidence,
   metadata         |-> metadata]

\* _calculate_indicator_score: matches / len(indicators), as a fraction.
\* (No indicator list is empty, so the early return of 0.0 is not taken.)
CalculateIndicatorScore(t, indicators) ==
  <<Cardinality({i \in DOMAIN indicators : Contains(t, indicators[i])}),
    Len(indicators)>>

\* Scored keys in which the academic indicators stand for business content.
ScoredTypesWithBusiness ==
  <<"fiction", "horror", "comedy", "technical", "business", "artistic">>

\* The keys of the scores dict of _detect_content_type, in insertion order.
ScoredTypes == <<"fiction", "horror", "comedy", "technical", "academic", "artistic">>

\* scores[ContentType.X] = self._calculate_indicator_score(text, self.X_INDICATORS),
\* in the order of ScoredTypes.
Scores(t) ==
  <<CalculateIndicatorScore(t, lexicons.FICTION_INDICATORS),
    CalculateIndicatorScore(t, lexicons.HORROR_INDICATORS),
    CalculateIndicatorScore(t, lexicons.COMEDY_INDICATORS),
    CalculateIndicatorScore(t, lexicons.TECHNICAL_INDICATORS),
    CalculateIndicatorScore(t, lexicons.ACADEMIC_INDICATORS),
    CalculateIndicatorScore(t, lexicons.ARTISTIC_INDICATORS)>>

\* a < b on fractions
FracLess(a, b) == a[1] * b[2] < b[1] * a[2]

\* The last key, in insertion order, that no other key beats.
BestIndexLast(scores) ==
  CHOOSE i \in DOMAIN scores :
    /\ \A j \in DOMAIN scores : ~FracLess(scores[i], scores[j])
    /\ \A j \in (i + 1)..Len(scores) : FracLess(scores[j], scores[i])

\* max(scores, key=scores.get): the first key, in insertion order, that no
\* other key beats.
BestIndex(scores) ==
  CHOOSE i \in DOMAIN scores :
    /\ \A j \in DOMAIN scores : ~FracLess(scores[i], scores[j])
    /\ \A j \in 1..(i - 1) : FracLess(scores[j], scores[i])

\* A detector whose floor also refuses the score 0.1 itself.
DetectContentTypeFloorInclusive(t) ==
  LET scores == Scores(t)
      best   == BestIndex(scores)
  IN IF ~FracLess(<<1, 10>>, scores[best])
       THEN <<"unknown", <<0, 1>>>>
       ELSE <<ScoredTypes[best],
              IF FracLess(<<1, 1>>, scores[best]) THEN <<1, 1>> ELSE scores[best]>>

\* _detect_content_type: <<content type, confidence>>
DetectContentType(t) ==
  LET scores == Scores(t)
      best   == BestIndex(scores)
  IN IF FracLess(scores[best], <<1, 10>>)
       THEN <<"unknown", <<0, 1>>>>
       ELSE <<ScoredTypes[best],
              IF FracLess(<<1, 1>>, scores[best]) THEN <<1, 1>> ELSE scores[best]>>

DetectGenreComedyFirst(t, content_type) ==
  IF content_type \in {"fiction", "artistic"}
    THEN IF \E i \in DOMAIN lexicons.COMEDY_INDICATORS :
                 Contains(t, lexicons.COMEDY_INDICATORS[i])
           THEN "comedy"
         ELSE IF \E i \in DOMAIN lexicons.HORROR_INDICATORS :
                 Contains(t, lexicons.HORROR_INDICATORS[i])
           THEN "horror"
         ELSE None
    ELSE None

\* _detect_genre
DetectGenre(t, content_type) ==
  IF content_type \in {"fiction", "artistic"}
    THEN IF \E i \in DOMAIN lexicons.HORROR_INDICATORS :
                 Contains(t, lexicons.HORROR_INDICATORS[i])
           THEN "horror"
         ELSE IF \E i \in DOMAIN lexicons.COMEDY_INDICATORS :
                 Contains(t, lexicons.COMEDY_INDICATORS[i])
           THEN "comedy"
         ELSE None
    ELSE None

\* _detect_intent
DetectIntent(t, content_type) ==
  IF content_type \in {"fiction", "artistic", "horror"} THEN "artistic"
  ELSE IF content_type = "technical" THEN "educational"
  ELSE IF content_type = "academic" THEN "research"
  ELSE None

\* A licence whose creative types leave artistic out.
HasCreativeLicenseNoArtistic(content_type, genre) ==
  \/ content_type \in {"fiction", "horror", "comedy", "satire"}
  \/ genre \in {"horror", "comedy", "satire"}

\* _has_creative_license
HasCreativeLicense(content_type, genre) ==
  \/ content_type \in {"fiction", "horror", "comedy", "satire", "artistic"}
  \/ genre \in {"horror", "comedy", "satire"}

\* dict.get(key, default)
Get(d, key, default) == IF key \in DOMAIN d THEN d[key] ELSE default

\* A builder that takes the type string over without looking it up.
BuildFromUserContextUnchecked(uc) ==
  ContentContext(Get(uc, "type", "unknown"),
                 Get(uc, "genre", None),
                 Get(uc, "intent", None),
                 Get(uc, "creative_license", FALSE),
                 <<1, 1>>,
                 uc)

\* _build_from_user_context
BuildFromUserContext(uc) ==
  LET content_type_str == Get(uc, "type", "unknown")
      content_type     == IF content_type_str \in ContentType
                            THEN content_type_str ELSE "unknown"
  IN ContentContext(content_type,
                    Get(uc, "genre", None),
                    Get(uc, "intent", None),
                    Get(uc, "creative_license", FALSE),
                    <<1, 1>>,
                    uc)

\* bool(user_context): None and the empty dict are both false.
Truthy(uc) == uc.supplied /\ DOMAIN uc.fields # {}

\* ContextDetector.detect
Detect(t, uc) ==
  LET text_lower == Lower(t)
  IN IF Truthy(uc)
       THEN BuildFromUserContext(uc.fields)
       ELSE LET typed        == DetectContentType(text_lower)
                content_type == typed[1]
                genre        == DetectGenre(text_lower, content_type)
            IN ContentContext(content_type,
                              genre,
                              DetectIntent(text_lower, content_type),
                              HasCreativeLicense(content_type, genre),
                              typed[2],
                              <<>>)

\* f"{coefficient:.2f}" for a coefficient given in ten-thousandths.  The
\* decimal digits are those of the double nearest to coefficient / 10000; at
\* an exact half the double lies above the half for the values of HalfUp.
HalfUp ==
  {50, 250, 350, 550, 650, 850, 950, 1150, 1350, 1650, 1950, 2250, 2550, 2650,
   2750, 3150, 3250, 3350, 3750, 3850, 3950, 4050, 4450, 4550, 4650, 5050, 5150,
   5250, 5350, 5450, 5550, 6350, 6450, 6550, 6650, 6750, 6850, 7550, 7650, 7750,
   7850, 7950, 8050, 8750, 8850, 8950, 9050, 9150, 9250, 9350}

Format2f(coefficient) ==
  LET h == IF coefficient % 100 = 50
             THEN (coefficient \div 100) + (IF coefficient \in HalfUp THEN 1 ELSE 0)
             ELSE (coefficient + 50) \div 100
  IN ToString(h \div 100) \o "." \o ToString((h % 100) \div 10) \o ToString(h % 10)

\* f"{confidence:.0%}"
FormatPercent(confidence) ==
  ToString(Round4(confidence[1], confidence[2] * 100)) \o "%"

\* _interpret_coefficient
InterpretCoefficient(coefficient, context) ==
  IF context.creative_license
    THEN IF context.content_type = "horror"
           THEN <<"Unity Coefficient: ", Format2f(coefficient), " (Genre: Horror Fiction)\n",
                  "Low coefficient expected for this genre. Creative license respected.">>
         ELSE IF context.content_type = "comedy"
           THEN <<"Unity Coefficient: ", Format2f(coefficient), " (Genre: Comedy/Satire)\n",
                  "Coefficient reflects comedic/satirical intent. Creative expression honored.">>
         ELSE <<"Unity Coefficient: ", Format2f(coefficient), " (Artistic Expression)\n",
                "Creative license recognized. No restrictions applied.">>
  ELSE IF coefficient >= 7500
    THEN <<"Unity Coefficient: ", Format2f(coefficient), " - High unity alignment">>
  ELSE IF coefficient >= 5000
    THEN <<"Unity Coefficient: ", Format2f(coefficient), " - Balanced alignment">>
  ELSE <<"Unity Coefficient: ", Format2f(coefficient), " - Separation-leaning patterns detected">>

\* Notes that carry the confidence disclaimer and the tip at any confidence.
GenerateContextualNotesAlwaysTip(coefficient, context) ==
  LET licence ==
        IF context.creative_license
          THEN <<"[U+2713] Creative license respected", "[U+2713] No restrictions applied",
                 "[U+2713] Artistic expression honored">>
               \o (IF context.content_type = "horror"
                     THEN <<"Note: Horror genre naturally employs separation themes for emotional impact">>
                   ELSE IF context.content_type = "comedy"
                     THEN <<"Note: Comedy/satire often uses contrast and conflict for humorous effect">>
                   ELSE <<>>)
        ELSE IF coefficient < 5000
          THEN <<"Observation: Content shows separation-based patterns",
                 "Suggestion: Alternative framing available if desired">>
        ELSE IF coefficient >= 7500
          THEN <<"Observation: Strong unity consciousness present",
                 "Recognition: Content promotes collaborative awareness">>
        ELSE <<>>
      low == IF TRUE
               THEN <<"Note: Context detection confidence is "
                        \o FormatPercent(context.confidence),
                      "Tip: You can provide explicit context for more accurate analysis">>
               ELSE <<>>
  IN licence \o low

\* _generate_contextual_notes ([U+2713] stands for the check mark character)
GenerateContextualNotes(coefficient, context) ==
  LET licence ==
        IF context.creative_license
          THEN <<"[U+2713] Creative license respected", "[U+2713] No restrictions applied",
                 "[U+2713] Artistic expression honored">>
               \o (IF context.content_type = "horror"
                     THEN <<"Note: Horror genre naturally employs separation themes for emotional impact">>
                   ELSE IF context.content_type = "comedy"
                     THEN <<"Note: Comedy/satire often uses contrast and conflict for humorous effect">>
                   ELSE <<>>)
        ELSE IF coefficient < 5000
          THEN <<"Observation: Content shows separation-based patterns",
                 "Suggestion: Alternative framing available if desired">>
        ELSE IF coefficient >= 7500
          THEN <<"Observation: Strong unity consciousness present",
                 "Recognition: Content promotes collaborative awareness">>
        ELSE <<>>
      low == IF FracLess(context.confidence, <<1, 2>>)
               THEN <<"Note: Context detection confidence is "
                        \o FormatPercent(context.confidence),
                      "Tip: You can provide explicit context for more accurate analysis">>
               ELSE <<>>
  IN licence \o low

\* A policy with the one threshold 0.3 for every content type.
ShouldSuggestReframingUniform(coefficient, context) ==
  IF context.creative_license THEN FALSE ELSE coefficient < 3000

\* A policy that never finds a reframing appropriate.
ShouldSuggestReframingNever(coefficient, context) == FALSE

\* _should_suggest_reframing
ShouldSuggestReframing(coefficient, context) ==
  IF context.creative_license THEN FALSE
  ELSE IF context.content_type \in {"business", "technical"} THEN coefficient < 5000
  ELSE coefficient < 3000

\* contextualize_coefficient (called through contextualize_analysis)
ContextualizeCoefficient(coefficient, t, uc) ==
  LET context == Detect(t, uc)
  IN [raw_coefficient            |-> coefficient,
      context                    |-> context,
      interpretation             |-> InterpretCoefficient(coefficient, context),
      notes                      |-> GenerateContextualNotes(coefficient, context),
      reframing_appropriate      |-> ShouldSuggestReframing(coefficient, context),
      creative_license_respected |-> context.creative_license]

\* ----------------------------------- _generate_context_aware_reframing
\* A reframing whose plain form leaves the base message out.
GenerateContextAwareReframingNoBase(base_reframing, cd) ==
  IF cd.context.creative_license \/ ~cd.reframing_appropriate
    THEN cd.interpretation
    ELSE cd.interpretation \o <<"\n\n", "Observation: ">> \o base_reframing

\* A reframing whose suggestion form ends with the base message.
GenerateContextAwareReframingNoNote(base_reframing, cd) ==
  IF cd.context.creative_license
    THEN cd.interpretation
         \o <<"\n\n",
              "Creative Expression Recognized:\n",
              "Your artistic vision is respected. No reframing suggested.\n",
              "The consciousness patterns detected are appropriate for ",
              cd.context.content_type,
              " content.">>
  ELSE IF cd.reframing_appropriate
    THEN cd.interpretation \o <<"\n\n", "Observation: ">> \o base_reframing
  ELSE cd.interpretation \o <<"\n\n">> \o base_reframing

GenerateContextAwareReframing(base_reframing, cd) ==
  LET context == cd.context
  IN IF context.creative_license
       THEN cd.interpretation
            \o <<"\n\n",
                 "Creative Expression Recognized:\n",
                 "Your artistic vision is respected. No reframing suggested.\n",
                 "The consciousness patterns detected are appropriate for ",
                 context.content_type,
                 " content.">>
     ELSE IF cd.reframing_appropriate
       THEN cd.interpretation
            \o <<"\n\n", "Observation: ">> \o base_reframing
            \o <<"\n\n",
                 "Note: This is informational only. You have complete sovereignty over your expression. Alternative framings are available if desired.">>
     ELSE cd.interpretation \o <<"\n\n">> \o base_reframing

\* v1_keyword_calculate as a function of the text.
V1KeywordCalculate(t) ==
  V1Report(CountHits(Lower(t), lexicons.SEPARATION_MARKERS),
           CountHits(Lower(t), lexicons.UNITY_MARKERS))

\* ---------------------------------------------------------------- inputs
\* The pieces a text is put together from, without separators, each text
\* taking its pieces in the order of this list (a piece may repeat):
\*   "peaceful"      two unity markers (peace, peaceful)
\*   "fear"          a separation marker and a horror indicator
\*   "Trustrust"     mixed case; the unity marker trust twice, overlapping
\*   "art"           an artistic indicator, no marker
\*   "study"         an academic indicator, no marker
\*   "class method"  two technical indicators, one separation marker (class)
\*   "dominate"      a separation marker of business talk, no indicator
\*   "wit"           a comedy indicator, no marker
Pieces ==
  << <<"p","e","a","c","e","f","u","l">>,
    <<"f","e","a","r">>,
    <<"T","r","u","s","t","r","u","s","t">>,
    <<"a","r","t">>,
    <<"s","t","u","d","y">>,
    <<"c","l","a","s","s"," ","m","e","t","h","o","d">>,
    <<"d","o","m","i","n","a","t","e">>,
    <<"w","i","t">> >>

RECURSIVE Flatten(_)
Flatten(ps) == IF ps = <<>> THEN <<>> ELSE Head(ps) \o Flatten(Tail(ps))

\* The ways to take n pieces in the order of the list.
PieceOrders(n) ==
  {order \in [1..n -> DOMAIN Pieces] : \A i \in 1..(n - 1) : order[i] <= order[i + 1]}

Texts ==
  UNION {{Flatten([i \in 1..n |-> Pieces[order[i]]]) : order \in PieceOrders(n)} :
           n \in 0..MaxPieces}

\* user_context: None, or a dict with some of the keys type, genre, intent,
\* creative_license; "poem" is no content type, and one dict has no type.
NoContext == [supplied |-> FALSE, fields |-> <<>>]

Dict(fields) == [supplied |-> TRUE, fields |-> fields]

UserContexts ==
  { NoContext,
    Dict(<<>>),
    Dict([type |-> "business"]),
    Dict([type |-> "personal"]),
    Dict([type |-> "fiction", genre |-> "adventure", creative_license |-> TRUE]),
    Dict([type |-> "horror", creative_license |-> TRUE]),
    Dict([type |-> "poem"]),
    Dict([genre |-> "horror", intent |-> "research"]) }

Unset == [unset |-> TRUE]

\* --------------------------------------------------------------- actions
Init ==
  /\ pc = "start"
  /\ text \in Texts
  /\ user_context \in UserContexts
  /\ include_context \in BOOLEAN
  /\ separation_hits = <<>>
  /\ unity_hits = <<>>
  /\ base_report = Unset
  /\ context_data = Unset
  /\ report = Unset
  /\ lexicons = Lexicons
  /\ init_kwargs = Unset
  /\ calls = <<>>

\* protocol.py 108-121
CountMarkers ==
  /\ pc = "start"
  /\ separation_hits' = CountHits(Lower(text), lexicons.SEPARATION_MARKERS)
  /\ unity_hits' = CountHits(Lower(text), lexicons.UNITY_MARKERS)
  /\ pc' = "counted"
  /\ UNCHANGED <<text, user_context, include_context, base_report, context_data, report,
                 lexicons, init_kwargs, calls>>

\* protocol.py 123-148
CalculateCoefficient ==
  /\ pc = "counted"
  /\ base_report' = V1Report(separation_hits, unity_hits)
  /\ pc' = IF base_report' = ValidationError THEN "raised" ELSE "v1_returned"
  /\ UNCHANGED <<text, user_context, include_context, separation_hits, unity_hits,
                 context_data, report, lexicons, init_kwargs, calls>>

\* protocol.py 190-191
ReturnBase ==
  /\ pc = "v1_returned"
  /\ ~include_context
  /\ report' = base_report
  /\ pc' = "done"
  /\ UNCHANGED <<text, user_context, include_context, separation_hits, unity_hits,
                 base_report, context_data, lexicons, init_kwargs, calls>>

\* protocol.py 194-198
ContextualizeAnalysis ==
  /\ pc = "v1_returned"
  /\ include_context
  /\ context_data' = ContextualizeCoefficient(base_report.coefficient, text, user_context)
  /\ pc' = "contextualized"
  /\ UNCHANGED <<text, user_context, include_context, separation_hits, unity_hits,
                 base_report, report, lexicons, init_kwargs, calls>>

\* protocol.py 201-213
ReturnEnhanced ==
  /\ pc = "contextualized"
  /\ report' = UnityReport(
       [coefficient         |-> base_report.coefficient,
        analysis_method     |-> base_report.analysis_method,
        separation_hits     |-> base_report.separation_hits,
        unity_hits          |-> base_report.unity_hits,
        conscious_reframing |-> GenerateContextAwareReframing(
                                  base_report.conscious_reframing, context_data),
        context_info        |-> context_data])
  /\ pc' = IF report' = ValidationError THEN "raised" ELSE "done"
  /\ UNCHANGED <<text, user_context, include_context, separation_hits, unity_hits,
                 base_report, context_data, lexicons, init_kwargs, calls>>

Next ==
  \/ CountMarkers
  \/ CalculateCoefficient
  \/ ReturnBase
  \/ ContextualizeAnalysis
  \/ ReturnEnhanced

Spec == Init /\ [][Next]_vars

\* ------------------------------------------------ the Coefficient Engine
\* The texts "love " * n + "fear " * m, too long to scan character by
\* character, are kept as their word counts; the counting loops find
\* "love" n times, "fear" m times and no other marker in them.
LOVE == <<"l","o","v","e">>
FEAR == <<"f","e","a","r">>

EngineCounts == (0..MaxRepeat) \cup {1251, 3752, 5000, 5001}

RepeatedText(n, m) == <<[word |-> LOVE \o <<" ">>, times |-> n],
                        [word |-> FEAR \o <<" ">>, times |-> m]>>

RepeatedHits(marker, n) == IF n > 0 THEN [k \in {marker} |-> n] ELSE <<>>

\* The state behind the counting loops (protocol.py 108-121) of
\* get_unity_report(text, include_context=False).
InitEngine ==
  \E n \in EngineCounts, m \in EngineCounts :
    /\ pc = "counted"
    /\ text = RepeatedText(n, m)
    /\ user_context = NoContext
    /\ include_context = FALSE
    /\ separation_hits = RepeatedHits(FEAR, m)
    /\ unity_hits = RepeatedHits(LOVE, n)
    /\ base_report = Unset
    /\ context_data = Unset
    /\ report = Unset
    /\ lexicons = Lexicons
    /\ init_kwargs = Unset
    /\ calls = <<>>

NextEngine == CalculateCoefficient \/ ReturnBase

SpecEngine == InitEngine /\ [][NextEngine]_vars

\* ------------------------------------------- the UnityReport constructor
\* UnityReport(coefficient=c, analysis_method="Test", separation_hits={},
\* unity_hits={}, conscious_reframing="Test"), as in test_protocol.py 31-49,
\* for the coefficients c around and inside [0.0, 1.0]; 1.5 and -0.1 are the
\* values of the test.
CoefficientArgs == ((0 - MaxExcess)..(10000 + MaxExcess)) \cup {-1000, 15000}

InitReport ==
  /\ pc = "construct"
  /\ init_kwargs \in {[coefficient         |-> c,
                       analysis_method     |-> "Test",
                       separation_hits     |-> <<>>,
                       unity_hits          |-> <<>>,
                       conscious_reframing |-> <<"Test">>] : c \in CoefficientArgs}
  /\ text = <<>>
  /\ user_context = NoContext
  /\ include_context = FALSE
  /\ separation_hits = <<>>
  /\ unity_hits = <<>>
  /\ base_report = Unset
  /\ context_data = Unset
  /\ report = Unset
  /\ lexicons = Lexicons
  /\ calls = <<>>

\* UnityReport(...) either returns the report or raises.
ConstructReport ==
  /\ pc = "construct"
  /\ report' = UnityReport(init_kwargs)
  /\ pc' = IF report' = ValidationError THEN "raised" ELSE "done"
  /\ UNCHANGED <<text, user_context, include_context, separation_hits, unity_hits,
                 base_report, context_data, lexicons, init_kwargs, calls>>

NextReport == ConstructReport

SpecReport == InitReport /\ [][NextReport]_vars

\* ------------------------------------------------------ concurrent calls
\* get_unity_report as a function of its arguments (protocol.py 153-213).
GetUnityReport(t, uc, ic) ==
  LET base == V1KeywordCalculate(t)
  IN IF ~ic \/ base = ValidationError THEN base
     ELSE LET cd == ContextualizeCoefficient(base.coefficient, t, uc)
          IN UnityReport(
               [coefficient         |-> base.coefficient,
                analysis_method     |-> base.analysis_method,
                separation_hits     |-> base.separation_hits,
                unity_hits          |-> base.unity_hits,
                conscious_reframing |-> GenerateContextAwareReframing(
                                          base.conscious_reframing, cd),
                context_info        |-> cd])

\* The arguments of the concurrent calls: "fear" with and without context
\* analysis, "art" under a business user context, the mixed-case "Trustrust".
CallArgs ==
  { [text |-> Pieces[2], user_context |-> NoContext, include_context |-> TRUE],
    [text |-> Pieces[2], user_context |-> NoContext, include_context |-> FALSE],
    [text |-> Pieces[4], user_context |-> Dict([type |-> "business"]),
     include_context |-> TRUE],
    [text |-> Pieces[3], user_context |-> NoContext, include_context |-> TRUE] }

\* The frame of a call that has just been entered: its arguments and its
\* locals.
NewCall(args) ==
  [pc              |-> "start",
   text            |-> args.text,
   user_context    |-> args.user_context,
   include_context |-> args.include_context,
   separation_hits |-> <<>>,
   unity_hits      |-> <<>>,
   base_report     |-> Unset,
   context_data    |-> Unset,
   report          |-> Unset]

\* Every call owns its frame; the lexicons are the only state calls share.
InitConcurrent ==
  /\ calls \in [1..MaxCalls -> {NewCall(args) : args \in CallArgs}]
  /\ lexicons = Lexicons
  /\ pc = "idle"
  /\ text = <<>>
  /\ user_context = NoContext
  /\ include_context = FALSE
  /\ separation_hits = <<>>
  /\ unity_hits = <<>>
  /\ base_report = Unset
  /\ context_data = Unset
  /\ report = Unset
  /\ init_kwargs = Unset

\* Hit maps kept in one place for all calls: a call finds the entries of
\* the other calls in its own map.
HitsOfShared(i, markers) ==
  LET own    == CountHits(Lower(calls[i].text), markers)
      others == UNION {DOMAIN calls[j].separation_hits \cup DOMAIN calls[j].unity_hits :
                         j \in DOMAIN calls \ {i}}
      keys   == DOMAIN own \cup (others \cap Range(markers))
  IN [marker \in keys |-> IF marker \in DOMAIN own THEN own[marker] ELSE 1]

\* protocol.py 104-121: the hit map of call i is a local dict, filled from
\* the call's own text.
HitsOf(i, markers) == CountHits(Lower(calls[i].text), markers)

\* A result remembered from whichever call returned before.
ReturnedReportRemembered(i, result) ==
  IF \E j \in DOMAIN calls : calls[j].pc = "done"
    THEN calls[CHOOSE j \in DOMAIN calls : calls[j].pc = "done"].report
    ELSE result

\* return ...: what call i returns is the object it has just built.
ReturnedReport(i, result) == result

Frame == <<pc, text, user_context, include_context, separation_hits, unity_hits,
           base_report, context_data, report, init_kwargs>>

\* protocol.py 108-121, in call i
CountMarkersOf(i) ==
  /\ calls[i].pc = "start"
  /\ calls' = [calls EXCEPT ![i] =
                 [@ EXCEPT !.separation_hits = HitsOf(i, lexicons.SEPARATION_MARKERS),
                           !.unity_hits      = HitsOf(i, lexicons.UNITY_MARKERS),
                           !.pc              = "counted"]]
  /\ UNCHANGED <<Frame, lexicons>>

\* protocol.py 123-148, in call i
CalculateCoefficientOf(i) ==
  /\ calls[i].pc = "counted"
  /\ LET base == V1Report(calls[i].separation_hits, calls[i].unity_hits)
     IN calls' = [calls EXCEPT ![i] =
                    [@ EXCEPT !.base_report = base,
                              !.pc = IF base = ValidationError THEN "raised"
                                     ELSE "v1_returned"]]
  /\ UNCHANGED <<Frame, lexicons>>

\* protocol.py 190-191, in call i
ReturnBaseOf(i) ==
  /\ calls[i].pc = "v1_returned"
  /\ ~calls[i].include_context
  /\ calls' = [calls EXCEPT ![i] =
                 [@ EXCEPT !.report = ReturnedReport(i, calls[i].base_report),
                           !.pc     = "done"]]
  /\ UNCHANGED <<Frame, lexicons>>

\* protocol.py 194-198, in call i
ContextualizeAnalysisOf(i) ==
  /\ calls[i].pc = "v1_returned"
  /\ calls[i].include_context
  /\ calls' = [calls EXCEPT ![i] =
                 [@ EXCEPT !.context_data =
                             ContextualizeCoefficient(calls[i].base_report.coefficient,
                                                      calls[i].text,
                                                      calls[i].user_context),
                           !.pc = "contextualized"]]
  /\ UNCHANGED <<Frame, lexicons>>

\* protocol.py 201-213, in call i
ReturnEnhancedOf(i) ==
  /\ calls[i].pc = "contextualized"
  /\ LET base     == calls[i].base_report
         enhanced == UnityReport(
                       [coefficient         |-> base.coefficient,
                        analysis_method     |-> base.analysis_method,
                        separation_hits     |-> base.separation_hits,
                        unity_hits          |-> base.unity_hits,
                        conscious_reframing |-> GenerateContextAwareReframing(
                                                  base.conscious_reframing,
                                                  calls[i].context_data),
                        context_info        |-> calls[i].context_data])
     IN calls' = [calls EXCEPT ![i] =
                    [@ EXCEPT !.report = ReturnedReport(i, enhanced),
                              !.pc = IF enhanced = ValidationError THEN "raised"
                                     ELSE "done"]]
  /\ UNCHANGED <<Frame, lexicons>>

\* Any call that has not returned takes its next step.
NextConcurrent ==
  \E i \in DOMAIN calls :
    \/ CountMarkersOf(i)
    \/ CalculateCoefficientOf(i)
    \/ ReturnBaseOf(i)
    \/ ContextualizeAnalysisOf(i)
    \/ ReturnEnhancedOf(i)

SpecConcurrent == InitConcurrent /\ [][NextConcurrent]_vars

\* ================================================================ claims

\* C1: every call returns a report, and the coefficient of the returned
\* report lies in [0.0, 1.0] (0..10000 ten-thousandths), for every text,
\* user_context and include_context.
C1_CoefficientInRange ==
  /\ pc # "raised"
  /\ pc \in {"v1_returned", "contextualized", "done"} =>
       base_report.coefficient \in 0..10000
  /\ pc = "done" => report.coefficient \in 0..10000

C1_Witness ==
  /\ pc = "done"
  /\ include_context
  /\ Truthy(user_context)
  /\ DOMAIN report.unity_hits # {}
  /\ DOMAIN report.separation_hits # {}
  /\ report.coefficient > 0
  /\ report.coefficient < 10000

\* C2: when the hit maps are not both empty, the reported coefficient is
\* unity_count / (unity_count + separation_count) rounded to 4 decimal
\* digits: no ten-thousandth is nearer to the quotient.
C2_CoefficientIsRoundedShare ==
  (pc = "done" /\ (DOMAIN report.unity_hits # {} \/ DOMAIN report.separation_hits # {})) =>
    LET unity_count      == SumValues(report.unity_hits)
        separation_count == SumValues(report.separation_hits)
        total            == unity_count + separation_count
        diff             == report.coefficient * total - 10000 * unity_count
    IN /\ total > 0
       /\ 2 * diff <= total
       /\ -2 * diff <= total

C2_Witness ==
  /\ pc = "done"
  /\ SumValues(report.unity_hits) = 2
  /\ SumValues(report.separation_hits) = 1
  /\ Cardinality(DOMAIN report.unity_hits) = 2
  /\ report.coefficient = 6667

\* Some marker of either lexicon occurs in the lower-cased text.
SomeMarkerOccurs(t) ==
  \/ \E i \in DOMAIN SEPARATION_MARKERS : Contains(t, SEPARATION_MARKERS[i])
  \/ \E i \in DOMAIN UNITY_MARKERS : Contains(t, UNITY_MARKERS[i])

\* The text in one case, by the letter tables alone.
SwapLetter(c, from, to) ==
  IF \E k \in DOMAIN from : from[k] = c
    THEN to[CHOOSE k \in DOMAIN from : from[k] = c] ELSE c

RECURSIVE AllLower(_)
AllLower(t) ==
  IF t = <<>> THEN <<>>
  ELSE <<SwapLetter(Head(t), UPPERCASE, LOWERCASE)>> \o AllLower(Tail(t))

RECURSIVE AllUpper(_)
AllUpper(t) ==
  IF t = <<>> THEN <<>>
  ELSE <<SwapLetter(Head(t), LOWERCASE, UPPERCASE)>> \o AllUpper(Tail(t))

\* C3: for the empty text and for every text in which (read without regard
\* to case) no marker occurs, the coefficient is exactly 0.5 and both hit
\* maps are empty.
C3_NeutralBaseline ==
  (pc = "done" /\ ~SomeMarkerOccurs(AllLower(text))) =>
    /\ report.coefficient = 5000
    /\ report.separation_hits = <<>>
    /\ report.unity_hits = <<>>

C3_Witness ==
  /\ pc = "done"
  /\ text # <<>>
  /\ ~SomeMarkerOccurs(AllLower(text))
  /\ report.coefficient = 5000

\* The start positions of the occurrences of sub in s.
Occurrences(s, sub) ==
  {i \in 1..(Len(s) - Len(sub) + 1) :
     \A k \in 1..Len(sub) : s[i + k - 1] = sub[k]}

\* The largest number of pairwise non-overlapping occurrences of sub in s.
MaxNonOverlapping(s, sub) ==
  LET occ  == Occurrences(s, sub)
      free == {T \in SUBSET occ :
                 \A i \in T, j \in T : i < j => i + Len(sub) <= j}
  IN CHOOSE n \in 0..Cardinality(occ) :
       /\ \E T \in free : Cardinality(T) = n
       /\ \A T \in free : Cardinality(T) <= n

ExactHits(hits, markers, t) ==
  /\ DOMAIN hits \subseteq Range(markers)
  /\ \A i \in DOMAIN markers :
       LET n == MaxNonOverlapping(t, markers[i])
       IN IF n > 0
            THEN markers[i] \in DOMAIN hits /\ hits[markers[i]] = n
            ELSE markers[i] \notin DOMAIN hits
  /\ \A m \in DOMAIN hits : hits[m] > 0

\* C4: each hit map maps a marker to the number of non-overlapping
\* occurrences of the marker as a raw substring of the lower-cased text when
\* that number is positive, has no entry for a marker that does not occur,
\* and has no zero-valued entry and no key outside its lexicon.
C4_MarkerCountingExact ==
  pc = "done" =>
    /\ ExactHits(report.separation_hits, SEPARATION_MARKERS, AllLower(text))
    /\ ExactHits(report.unity_hits, UNITY_MARKERS, AllLower(text))

\* A marker occurs twice in the text, the occurrences overlapping, and the
\* marker is counted once.
C4_Witness ==
  /\ pc = "done"
  /\ \E i \in DOMAIN UNITY_MARKERS :
       LET m == UNITY_MARKERS[i]
       IN /\ Cardinality(Occurrences(AllLower(text), m)) = 2
          /\ m \in DOMAIN report.unity_hits
          /\ report.unity_hits[m] = 1

SameScore(r1, r2) ==
  /\ r1.separation_hits = r2.separation_hits
  /\ r1.unity_hits = r2.unity_hits
  /\ r1.coefficient = r2.coefficient

\* C5: two texts that are equal after lower-casing get identical separation
\* hits, unity hits and coefficient: the returned report scores as the
\* all-lower-case and the all-upper-case spelling of its text do.
C5_CaseInsensitive ==
  pc = "done" =>
    /\ SameScore(report, V1KeywordCalculate(AllLower(text)))
    /\ SameScore(report, V1KeywordCalculate(AllUpper(text)))

C5_Witness ==
  /\ pc = "done"
  /\ text # AllLower(text)
  /\ text # AllUpper(text)
  /\ DOMAIN report.unity_hits # {}

\* The base message that goes with a reported coefficient.
BandMessage(coefficient) ==
  IF coefficient >= 7500 THEN HIGH_UNITY_MSG
  ELSE IF coefficient >= 5000 THEN BALANCED_MSG
  ELSE SEPARATION_MSG

\* C6: the base message is the one of the band of the reported coefficient:
\* High Unity Alignment from 0.75, Balanced Alignment from 0.5 to below 0.75,
\* separation logic below 0.5.
C6_MessageBandMatchesReported ==
  pc \in {"v1_returned", "done"} =>
    base_report.conscious_reframing = <<BandMessage(base_report.coefficient)>>

\* part in message
HasPart(message, part) == \E i \in DOMAIN message : message[i] = part

ShareMessage(unity_count, separation_count) ==
  LET total == unity_count + separation_count
  IN IF total = 0 THEN BALANCED_MSG
     ELSE IF 4 * unity_count >= 3 * total THEN HIGH_UNITY_MSG
     ELSE IF 2 * unity_count >= total THEN BALANCED_MSG
     ELSE SEPARATION_MSG

C8_ContextInfoIffRequested ==
  pc = "done" =>
    /\ include_context <=> "context_info" \in DOMAIN report
    /\ ~include_context => report.conscious_reframing = base_report.conscious_reframing

\* The final message of creative content.
CreativeMessage(message, cd) ==
  /\ SubSeq(message, 1, Len(cd.interpretation)) = cd.interpretation
  /\ HasPart(message, "Your artistic vision is respected. No reframing suggested.\n")
  /\ HasPart(message, cd.context.content_type)
  /\ \A m \in {HIGH_UNITY_MSG, BALANCED_MSG, SEPARATION_MSG} : ~HasPart(message, m)

\* C9: when the context has creative license, the context_info of the report
\* has creative_license_respected true and reframing_appropriate false, and
\* the final message is the creative one, whatever the coefficient.
C9_CreativeLicenseRespected ==
  (pc = "done" /\ include_context /\ context_data.context.creative_license) =>
    /\ "context_info" \in DOMAIN report
    /\ report.context_info.creative_license_respected
    /\ ~report.context_info.reframing_appropriate
    /\ CreativeMessage(report.conscious_reframing, report.context_info)

SomeIndicatorOccurs(t, indicators) ==
  \E i \in DOMAIN indicators : Occurrences(AllLower(t), indicators[i]) # {}

\* The indicator list the specification gives for a scored content type.
IndicatorsOf(content_type) ==
  CASE content_type = "fiction"   -> FICTION_INDICATORS
    [] content_type = "horror"    -> HORROR_INDICATORS
    [] content_type = "comedy"    -> COMEDY_INDICATORS
    [] content_type = "technical" -> TECHNICAL_INDICATORS
    [] content_type = "academic"  -> ACADEMIC_INDICATORS
    [] content_type = "artistic"  -> ARTISTIC_INDICATORS

\* The text uses the vocabulary of competitive business talk.
BusinessFlavoured(t) ==
  \E marker \in {<<"d","o","m","i","n","a","t","e">>,
                  <<"c","o","m","p","e","t","i","t","i","o","n">>,
                  <<"z","e","r","o","-","s","u","m">>} :
    Occurrences(AllLower(t), marker) # {}

\* C11: a call without user context on a business-flavoured text (dominate,
\* competition, zero-sum) that holds no fiction, horror, comedy or artistic
\* indicator and scores below 0.5 gets the context block with
\* reframing_appropriate true and creative_license_respected false.  Stated
\* on the block the call computes and passes on as context_info.
C11_BusinessTextGetsSuggestion ==
  ( /\ pc = "done"
    /\ include_context
    /\ user_context = NoContext
    /\ BusinessFlavoured(text)
    /\ ~SomeIndicatorOccurs(text, FICTION_INDICATORS)
    /\ ~SomeIndicatorOccurs(text, HORROR_INDICATORS)
    /\ ~SomeIndicatorOccurs(text, COMEDY_INDICATORS)
    /\ ~SomeIndicatorOccurs(text, ARTISTIC_INDICATORS)
    /\ report.coefficient < 5000 )
  => /\ context_data.reframing_appropriate = TRUE
     /\ context_data.creative_license_respected = FALSE

\* C12: a supplied user context whose creative_license is true overrides
\* detection: for every text the report has context_info with
\* creative_license_respected true and reframing_appropriate false.
C12_UserContextOverrides ==
  ( /\ pc = "done"
    /\ include_context
    /\ user_context.supplied
    /\ Get(user_context.fields, "creative_license", FALSE) = TRUE )
  => /\ "context_info" \in DOMAIN report
     /\ report.context_info.creative_license_respected = TRUE
     /\ report.context_info.reframing_appropriate = FALSE

\* The ContentContext a trusted user context record stands for.
TrustedContext(fields) ==
  [content_type     |-> IF "type" \in DOMAIN fields /\ fields.type \in ContentType
                          THEN fields.type ELSE "unknown",
   genre            |-> IF "genre" \in DOMAIN fields THEN fields.genre ELSE None,
   intent           |-> IF "intent" \in DOMAIN fields THEN fields.intent ELSE None,
   audience         |-> None,
   creative_license |-> IF "creative_license" \in DOMAIN fields
                          THEN fields.creative_license ELSE FALSE,
   confidence       |-> <<1, 1>>,
   metadata         |-> fields]

\* C13: whenever a user context record is supplied, with or without fields,
\* the detected ContentContext is the one the record stands for (type parsed
\* against the enumeration or unknown, genre, intent and creative_license
\* taken over, confidence 1.0), whatever the text is.
C13_SuppliedContextTrusted ==
  ( /\ pc \in {"contextualized", "done"}
    /\ include_context
    /\ user_context.supplied )
  => context_data.context = TrustedContext(user_context.fields)

\* C14: constructing a UnityReport with a coefficient below 0.0 or above 1.0
\* raises a validation error and yields no report; a coefficient in
\* [0.0, 1.0], endpoints included, is accepted and stored unchanged.
C14_CoefficientValidated ==
  /\ pc = "raised" =>
       /\ init_kwargs.coefficient < 0 \/ init_kwargs.coefficient > 10000
       /\ report = ValidationError
  /\ pc = "done" =>
       /\ init_kwargs.coefficient >= 0 /\ init_kwargs.coefficient <= 10000
       /\ report.coefficient = init_kwargs.coefficient
       /\ DOMAIN report = UnityReportFields

\* A coefficient just above 1.0 was refused.
C14_Witness ==
  /\ pc = "raised"
  /\ init_kwargs.coefficient = 10001
  /\ report = ValidationError

\* C15: get_unity_report never raises, for any text and any user context
\* with missing or unrecognized fields: a call is at one of the steps that
\* lead to the return and never at a raise, and what it returns is a report; the coefficient is the neutral 0.5 when no marker is found; the
\* content type is unknown when the given type is not a known one, and when
\* no type is given and no indicator is detected in the text.
C15_NeverRaises ==
  /\ pc \in {"start", "counted", "v1_returned", "contextualized", "done"}
  /\ pc = "done" =>
       /\ UnityReportFields \subseteq DOMAIN report
       /\ ~SomeMarkerOccurs(text) => report.coefficient = 5000
  /\ (pc \in {"contextualized", "done"} /\ include_context) =>
       /\ ( /\ "type" \in DOMAIN user_context.fields
            /\ user_context.fields.type \notin ContentType )
          => context_data.context.content_type = "unknown"
       /\ ( /\ "type" \notin DOMAIN user_context.fields
            /\ \A c \in DOMAIN ScoredTypes :
                 ~SomeIndicatorOccurs(text, IndicatorsOf(ScoredTypes[c])) )
          => context_data.context.content_type = "unknown"

\* A call on the empty text with an unrecognized type returned the neutral
\* report for unknown content.
C15_Witness ==
  /\ pc = "done"
  /\ include_context
  /\ text = <<>>
  /\ user_context = Dict([type |-> "poem"])
  /\ report.coefficient = 5000
  /\ context_data.context.content_type = "unknown"

\* The sovereignty disclaimer of a suggested reframing.
SovereigntyNote ==
  "Note: This is informational only. You have complete sovereignty over your expression. Alternative framings are available if desired."

\* C16: whenever the call finds reframing appropriate, the final message is
\* the interpretation, then the base message introduced as an observation,
\* then the sovereignty disclaimer; and no final message introduces the base
\* message as an observation without ending with that disclaimer.
C16_SuggestionCarriesDisclaimer ==
  (pc = "done" /\ include_context) =>
    /\ context_data.reframing_appropriate =>
         report.conscious_reframing =
           context_data.interpretation
             \o <<"\n\n", "Observation: ">> \o base_report.conscious_reframing
             \o <<"\n\n", SovereigntyNote>>
    /\ HasPart(report.conscious_reframing, "Observation: ") =>
         /\ context_data.reframing_appropriate
         /\ report.conscious_reframing[Len(report.conscious_reframing)] = SovereigntyNote

\* A separation-leaning text of unknown type got the suggestion with the
\* disclaimer.
C16_Witness ==
  /\ pc = "done"
  /\ include_context
  /\ context_data.reframing_appropriate
  /\ context_data.context.content_type = "unknown"
  /\ HasPart(report.conscious_reframing, SEPARATION_MSG)
  /\ HasPart(report.conscious_reframing, SovereigntyNote)

\* Two calls were made with identical arguments.
SameArguments(i, j) ==
  /\ calls[i].text = calls[j].text
  /\ calls[i].user_context = calls[j].user_context
  /\ calls[i].include_context = calls[j].include_context

C18_SerializationLossless ==
  pc = "done" =>
    LET json == ModelDumpJson(report)
    IN /\ {json[k][1] : k \in DOMAIN json} =
            UnityReportFields \cup (IF include_context THEN {"context_info"} ELSE {})
       /\ ModelValidateJson(json) = report

\* C19: under every interleaving of the steps of concurrent calls, no call
\* raises, a call that has returned holds the report the same arguments give
\* to a call that runs alone, and the lexicons and indicator lists are the
\* ones of the source, never written.
C19_ConcurrentCallsIsolated ==
  /\ lexicons = Lexicons
  /\ \A i \in DOMAIN calls :
       /\ calls[i].pc # "raised"
       /\ calls[i].pc = "done" =>
            calls[i].report = GetUnityReport(calls[i].text,
                                             calls[i].user_context,
                                             calls[i].include_context)

\* One call has returned while two calls on other texts are under way, one
\* between its counting and its coefficient, one with its context computed.
C19_Witness ==
  \E i \in DOMAIN calls, j \in DOMAIN calls, k \in DOMAIN calls :
    /\ calls[i].pc = "done"
    /\ calls[j].pc = "counted"
    /\ calls[k].pc = "contextualized"
    /\ calls[i].text # calls[j].text
    /\ calls[i].text # calls[k].text
    /\ calls[j].text # calls[k].text
    /\ DOMAIN calls[i].report.separation_hits # {}

\* The number of distinct indicator words of a category that occur in the
\* lower-cased text.
IndicatorMatches(t, content_type) ==
  LET indicators == IndicatorsOf(content_type)
  IN Cardinality({indicators[i] : i \in {k \in DOMAIN indicators :
                                            Occurrences(t, indicators[k]) # {}}})

\* C20: without user context the detected content type is unknown with
\* confidence 0.0 when every category's score (distinct indicator words
\* occurring in the lower-cased text over the size of the category's list)
\* is below 0.1; otherwise it is a category no other category outscores, and
\* the confidence is that category's score, capped at 1.0.  A best score of
\* exactly 0.1 is not below the floor.
C20_DetectionScoring ==
  ( /\ pc \in {"contextualized", "done"}
    /\ include_context
    /\ user_context = NoContext )
  => LET t          == AllLower(text)
         context    == context_data.context
         Matches(c) == IndicatorMatches(t, c)
         Size(c)    == Len(IndicatorsOf(c))
     IN IF \A c \in Range(ScoredTypes) : 10 * Matches(c) < Size(c)
          THEN /\ context.content_type = "unknown"
               /\ context.confidence[1] = 0
          ELSE LET best == context.content_type
               IN /\ best \in Range(ScoredTypes)
                  /\ \A c \in Range(ScoredTypes) :
                       Matches(c) * Size(best) <= Matches(best) * Size(c)
                  /\ Matches(best) <= Size(best)
                  /\ context.confidence[1] * Size(best)
                       = Matches(best) * context.confidence[2]

\* A text whose one academic indicator gives the best score, exactly 0.1,
\* was typed academic with confidence 0.1.
C20_Witness ==
  /\ pc = "done"
  /\ include_context
  /\ user_context = NoContext
  /\ IndicatorMatches(AllLower(text), "academic") = 1
  /\ Len(ACADEMIC_INDICATORS) = 10
  /\ context_data.context.content_type = "academic"
  /\ context_data.context.confidence = <<1, 10>>

\* The content type or the genre is a creative one.
CreativeByTypeOrGenre(context) ==
  \/ context.content_type \in {"fiction", "horror", "comedy", "satire", "artistic"}
  \/ context.genre \in {"horror", "comedy", "satire"}

\* C21: for every ContentContext the detector returns, creative_license is
\* true if and only if the content type is one of fiction, horror, comedy,
\* satire, artistic or the genre is one of horror, comedy, satire.
C21_CreativeLicenseIffCreative ==
  (pc \in {"contextualized", "done"} /\ include_context) =>
    (context_data.context.creative_license = TRUE
       <=> CreativeByTypeOrGenre(context_data.context))

\* C21, amended: when the detector scans the text (no user context, or an
\* empty one), creative_license is true if and only if the content type or
\* the genre is a creative one; when it trusts a user context,
\* creative_license is the record's value, false when the record has none.
C21_CreativeLicenseByOrigin ==
  (pc \in {"contextualized", "done"} /\ include_context) =>
    IF user_context.supplied /\ DOMAIN user_context.fields # {}
      THEN context_data.context.creative_license =
             (IF "creative_license" \in DOMAIN user_context.fields
                THEN user_context.fields.creative_license ELSE FALSE)
      ELSE context_data.context.creative_license = TRUE
             <=> CreativeByTypeOrGenre(context_data.context)

\* A scanned text was typed artistic and got the licence, and so was not
\* offered a reframing.
C21_Witness ==
  /\ pc = "done"
  /\ include_context
  /\ user_context = NoContext
  /\ context_data.context.content_type = "artistic"
  /\ context_data.context.creative_license = TRUE
  /\ ~context_data.reframing_appropriate

\* The final message is the third form: the interpretation, a blank line,
\* the base message, with no creative-expression affirmation and no
\* sovereignty disclaimer.
ThirdForm ==
  /\ report.conscious_reframing =
       context_data.interpretation \o <<"\n\n">> \o base_report.conscious_reframing
  /\ ~HasPart(report.conscious_reframing, "Creative Expression Recognized:\n")
  /\ ~HasPart(report.conscious_reframing, SovereigntyNote)

ExpectedInterpretation(coefficient, context) ==
  IF context.creative_license = TRUE
    THEN IF context.content_type = "horror" \/ context.genre = "horror"
           THEN <<" (Genre: Horror Fiction)\n",
                  "Low coefficient expected for this genre. Creative license respected.">>
         ELSE IF \/ context.content_type \in {"comedy", "satire"}
                 \/ context.genre \in {"comedy", "satire"}
           THEN <<" (Genre: Comedy/Satire)\n",
                  "Coefficient reflects comedic/satirical intent. Creative expression honored.">>
         ELSE <<" (Artistic Expression)\n",
                "Creative license recognized. No restrictions applied.">>
  ELSE IF coefficient >= 7500 THEN <<" - High unity alignment">>
  ELSE IF coefficient >= 5000 THEN <<" - Balanced alignment">>
  ELSE <<" - Separation-leaning patterns detected">>

\* C23: under creative licence the interpretation is the horror message
\* whenever the context is horror by content type or by genre, the
\* comedy/satire message whenever it is comedy or satire, and the artistic
\* message otherwise; without the licence it is the band of the coefficient
\* (high unity from 0.75, balanced from 0.5, separation-leaning below).
C23_InterpretationNamesGenre ==
  (pc \in {"contextualized", "done"} /\ include_context) =>
    LET interpretation == context_data.interpretation
    IN /\ Len(interpretation) >= 3
       /\ SubSeq(interpretation, 3, Len(interpretation)) =
            ExpectedInterpretation(context_data.raw_coefficient, context_data.context)

EndsWithLowConfidencePair(notes) ==
  /\ Len(notes) >= 2
  /\ notes[Len(notes)] = "Tip: You can provide explicit context for more accurate analysis"
  /\ \E percent \in 0..100 :
       notes[Len(notes) - 1] =
         "Note: Context detection confidence is " \o ToString(percent) \o "%"

\* C25: the Contextualizer's notes end with the low-confidence disclaimer
\* and the tip to supply explicit context exactly when the confidence of the
\* context is below 0.5; the pair is never there when a user context was
\* trusted (confidence 1.0) and always there when scanning found the type
\* unknown (confidence 0.0).
C25_LowConfidencePair ==
  (pc \in {"contextualized", "done"} /\ include_context) =>
    LET context == context_data.context
        pair    == EndsWithLowConfidencePair(context_data.notes)
    IN /\ pair <=> (context.confidence[1] * 2 < context.confidence[2])
       /\ Truthy(user_context) => (context.confidence = <<1, 1>> /\ ~pair)
       /\ (~Truthy(user_context) /\ context.content_type = "unknown") =>
            (context.confidence = <<0, 1>> /\ pair)

C25_Witness ==
  /\ pc = "done" /\ include_context /\ ~Truthy(user_context)
  /\ context_data.context.content_type = "technical"
  /\ context_data.context.confidence = <<2, 11>>
  /\ Len(context_data.notes) = 4
  /\ EndsWithLowConfidencePair(context_data.notes)

\* A lexicon of lowercase marker strings, no marker listed twice.
WellFormedLexicon(markers) ==
  /\ \A i \in DOMAIN markers : AllLower(markers[i]) = markers[i]
  /\ \A i, j \in DOMAIN markers : i # j => markers[i] # markers[j]

\* C26: each of the two lexicons is a sequence of lowercase marker strings
\* without duplicates, no marker is in both lexicons, and no step of an
\* analysis call modifies either of them.
C26_LexiconsWellFormed ==
  /\ WellFormedLexicon(lexicons.SEPARATION_MARKERS)
  /\ WellFormedLexicon(lexicons.UNITY_MARKERS)
  /\ Range(lexicons.SEPARATION_MARKERS) \cap Range(lexicons.UNITY_MARKERS) = {}
  /\ lexicons.SEPARATION_MARKERS = SEPARATION_MARKERS
  /\ lexicons.UNITY_MARKERS = UNITY_MARKERS

\* C27: a context detected by scanning (no user context, or one treated as
\* not supplied) has a content type among fiction, horror, comedy, technical,
\* academic, artistic and unknown, so that without a user context the
\* threshold 0.5 for suggesting a reframing applies to technical content
\* only and the threshold 0.3 to everything else without creative licence.
C27_HeuristicTypes ==
  (pc \in {"contextualized", "done"} /\ include_context /\ ~Truthy(user_context)) =>
    LET context == context_data.context
    IN /\ context.content_type \in
            {"fiction", "horror", "comedy", "technical", "academic", "artistic", "unknown"}
       /\ context_data.reframing_appropriate <=>
            /\ context.creative_license = FALSE
            /\ context_data.raw_coefficient <
                 (IF context.content_type = "technical" THEN 5000 ELSE 3000)

C27_Witness ==
  /\ pc = "done" /\ include_context /\ ~Truthy(user_context)
  /\ context_data.context.content_type = "technical"
  /\ context_data.raw_coefficient \in 3000..4999
  /\ context_data.reframing_appropriate

\* The order in which the detector breaks ties.
TieOrder == <<"fiction", "horror", "comedy", "technical", "academic", "artistic">>

\* The categories whose indicator score is the maximum for the text t.
TopCategories(t) ==
  {c \in Range(TieOrder) :
     \A d \in Range(TieOrder) :
       IndicatorMatches(t, d) * Len(IndicatorsOf(c))
         <= IndicatorMatches(t, c) * Len(IndicatorsOf(d))}

\* C28: when the maximum indicator score is at or above the floor 0.1, the
\* detector returns, among the categories that reach the maximum, the one
\* that comes first in the order fiction, horror, comedy, technical,
\* academic, artistic; in particular when two or more categories tie.
C28_TieBreakFirst ==
  (pc \in {"contextualized", "done"} /\ include_context /\ ~Truthy(user_context)) =>
    LET t   == AllLower(text)
        top == TopCategories(t)
    IN (\E c \in top : 10 * IndicatorMatches(t, c) >= Len(IndicatorsOf(c))) =>
         \E k \in DOMAIN TieOrder :
           /\ TieOrder[k] \in top
           /\ \A j \in 1..(k - 1) : TieOrder[j] \notin top
           /\ context_data.context.content_type = TieOrder[k]

C28_Witness ==
  /\ pc = "done" /\ include_context /\ ~Truthy(user_context)
  /\ TopCategories(AllLower(text)) = {"academic", "artistic"}
  /\ IndicatorMatches(AllLower(text), "academic") = 1
  /\ context_data.context.content_type = "academic"
====
